---- MODULE Spec2Model ----
(***************************************************************************)
(* Model of the waveform decoding engine of PyDICOM-Waveform-Extractor:    *)
(* src/dcm_waveform_extractor/data_extraction.py.                          *)
(*                                                                         *)
(* Python strings are sequences of one-character strings, so that          *)
(* formatting, upper-casing and prefix matching are computed.  Python      *)
(* values are records [t |-> type, v |-> payload].  Floating point values  *)
(* are integers: every number of the model is a small integer, on which    *)
(* double arithmetic is exact.                                             *)
(***************************************************************************)
EXTENDS Integers, Sequences, FiniteSets, TLC

VARIABLES
    pc,                 \* position of the running function
    call,               \* arguments of the function under test
    ret,                \* what safe_extract_channel_def / the decoder gave
    i_w,                \* loop index of extract_waveform_data_form_dcm (0-based)
    content_info,       \* the metadata record being built
    waveform_df_dict,   \* group identifier -> table, in insertion order
    frame,              \* the locals of the current loop iteration
    exc                 \* the exception that left the function, or "none"

vars == <<pc, call, ret, i_w, content_info, waveform_df_dict, frame, exc>>

(***************************************************************************)
(* Bounds of the model.                                                    *)
(***************************************************************************)
MaxSeqLen == 5      \* channel definitions per sequence, extractor alone
MaxBytes == 8       \* bytes of a raw sample buffer, decoder alone
MaxChannels == 2    \* channels of a group, whole function
MaxGroups == 2      \* channel groups of a file, whole function

(***************************************************************************)
(* Strings.                                                                *)
(***************************************************************************)
UpperMap ==
    [a |-> "A", b |-> "B", c |-> "C", d |-> "D", e |-> "E", f |-> "F",
     g |-> "G", h |-> "H", i |-> "I", j |-> "J", k |-> "K", l |-> "L",
     m |-> "M", n |-> "N", o |-> "O", p |-> "P", q |-> "Q", r |-> "R",
     s |-> "S", t |-> "T", u |-> "U", v |-> "V", w |-> "W", x |-> "X",
     y |-> "Y", z |-> "Z"]

\* str.upper()
Upper(s) ==
    [k \in 1..Len(s) |-> IF s[k] \in DOMAIN UpperMap THEN UpperMap[s[k]] ELSE s[k]]

DigitChar == <<"0", "1", "2", "3", "4", "5", "6", "7", "8", "9">>

RECURSIVE IntToStr(_)
\* str(n) of a non-negative int
IntToStr(n) ==
    IF n < 10 THEN <<DigitChar[n + 1]>>
    ELSE IntToStr(n \div 10) \o <<DigitChar[(n % 10) + 1]>>

\* str.startswith
StartsWith(s, prefix) ==
    /\ Len(prefix) <= Len(s)
    /\ \A k \in 1..Len(prefix) : s[k] = prefix[k]

(***************************************************************************)
(* Python values.                                                          *)
(***************************************************************************)
PyNone == [t |-> "none", v |-> 0]
PyStr(s) == [t |-> "str", v |-> s]
PyInt(n) == [t |-> "int", v |-> n]
PyFloat(n) == [t |-> "float", v |-> n]
PySeq(items) == [t |-> "sq", v |-> items]

\* What a step of Python gives: a value, or an exception.
Ok(v) == [exc |-> "none", value |-> v]
Raise(e) == [exc |-> e, value |-> PyNone]

\* format(v) inside an f-string: str stays, 0 gives "0", 1.0 gives "1.0"
Format(v) ==
    CASE v.t = "str" -> v.v
      [] v.t = "int" -> IntToStr(v.v)
      [] v.t = "float" -> IntToStr(v.v) \o <<".", "0">>
      [] OTHER -> <<"N", "o", "n", "e">>

IsDigits(s) == Len(s) > 0 /\ \A k \in 1..Len(s) : \E d \in 1..10 : DigitChar[d] = s[k]

RECURSIVE DigitsValue(_)
DigitsValue(s) ==
    IF Len(s) = 0 THEN 0
    ELSE 10 * DigitsValue(SubSeq(s, 1, Len(s) - 1))
         + (CHOOSE d \in 0..9 : DigitChar[d + 1] = s[Len(s)])

\* float(value): a number converts, a string of digits parses, any other
\* string is a ValueError, None and a sequence are a TypeError.
ToFloat(value) ==
    CASE value.t \in {"float", "int"} -> Ok(PyFloat(value.v))
      [] value.t = "str" ->
            IF IsDigits(value.v) THEN Ok(PyFloat(DigitsValue(value.v)))
            ELSE Raise("ValueError")
      [] OTHER -> Raise("TypeError")

\* len(value)
PyLen(value) ==
    CASE value.t \in {"str", "sq"} -> Ok(PyInt(Len(value.v)))
      [] OTHER -> Raise("TypeError")

(***************************************************************************)
(* A dataset (a channel definition item, a coded concept item) is a        *)
(* function from the tags it holds to their values.                        *)
(***************************************************************************)
CodeMeaningTag == "0008,0104"

\* item.get(tag_path).value: the lookup gives None for a tag the dataset
\* lacks, and None has no attribute "value".
GetValue(item, tag_path) ==
    IF tag_path \in DOMAIN item THEN Ok(item[tag_path]) ELSE Raise("AttributeError")

\* value[0].get([0x0008, 0x0104]).value for a value of length > 0: the first
\* character of a string has no "get"; the first item of a sequence is a
\* dataset.
NestedValue(value) ==
    IF value.t = "sq" THEN GetValue(value.v[1], CodeMeaningTag)
    ELSE Raise("AttributeError")

\* The placeholder without its index.
PlaceholderNoIndex(default, idx) ==
    Upper(<<"u", "n", "k", ".">> \o Format(default))

\* f"unk.{default}_{idx}".upper()
Placeholder(default, idx) ==
    Upper(<<"u", "n", "k", ".">> \o Format(default) \o <<"_">> \o IntToStr(idx))

\* The body of the try block for one item.
TryExtract(item, tag_path, default, nested) ==
    LET got == GetValue(item, tag_path) IN
    IF got.exc # "none" THEN got
    ELSE
      LET n == IF nested THEN PyLen(got.value) ELSE Ok(PyInt(0)) IN
      IF n.exc # "none" THEN n
      ELSE
        LET inner == IF nested /\ n.value.v > 0 THEN NestedValue(got.value) ELSE got IN
        IF inner.exc # "none" THEN inner
        ELSE IF default.t # "str" THEN ToFloat(inner.value)
        ELSE inner

\* except (AttributeError, IndexError, TypeError)
CaughtExceptions == {"AttributeError", "IndexError", "TypeError"}

RECURSIVE ExtractLoopSkipping(_, _, _, _, _, _, _)
\* The loop with a failed item left out of the list.
ExtractLoopSkipping(sequence, tag_path, default, nested, k, idx, results) ==
    IF k > Len(sequence) THEN [exc |-> "none", results |-> results]
    ELSE
      LET got == TryExtract(sequence[k], tag_path, default, nested) IN
      IF got.exc = "none"
        THEN ExtractLoopSkipping(sequence, tag_path, default, nested, k + 1, idx + 1,
                                 Append(results, got.value))
      ELSE IF got.exc \in CaughtExceptions
        THEN ExtractLoopSkipping(sequence, tag_path, default, nested, k + 1, idx + 1,
                                 results)
      ELSE [exc |-> got.exc, results |-> results]

RECURSIVE ExtractLoop(_, _, _, _, _, _, _)
\* The for loop of safe_extract_channel_def, from item k on.
ExtractLoop(sequence, tag_path, default, nested, k, idx, results) ==
    IF k > Len(sequence) THEN [exc |-> "none", results |-> results]
    ELSE
      LET got == TryExtract(sequence[k], tag_path, default, nested) IN
      IF got.exc = "none"
        THEN ExtractLoop(sequence, tag_path, default, nested, k + 1, idx + 1,
                         Append(results, got.value))
      ELSE IF got.exc \in CaughtExceptions
        THEN ExtractLoop(sequence, tag_path, default, nested, k + 1, idx + 1,
                         Append(results, PyStr(Placeholder(default, idx))))
      ELSE [exc |-> got.exc, results |-> results]

\* The extractor counting the items from 0.
safe_extract_zero_based(sequence, tag_path, default, nested) ==
    ExtractLoop(sequence, tag_path, default, nested, 1, 0, <<>>)

safe_extract_channel_def(sequence, tag_path, default, nested) ==
    ExtractLoop(sequence, tag_path, default, nested, 1, 1, <<>>)

(***************************************************************************)
(* The seven extractions extract_waveform_data_form_dcm asks for.          *)
(***************************************************************************)
S_label == <<"l", "a", "b", "e", "l">>
S_meaning == <<"m", "e", "a", "n", "i", "n", "g">>
S_unit == <<"u", "n", "i", "t">>

LabelSite == [tag_path |-> "003a,0203", default |-> PyStr(S_label), nested |-> FALSE]
BitsSite == [tag_path |-> "003a,021a", default |-> PyInt(0), nested |-> FALSE]
SensitivitySite == [tag_path |-> "003a,0210", default |-> PyFloat(1), nested |-> FALSE]
CorrectionSite == [tag_path |-> "003a,0212", default |-> PyFloat(1), nested |-> FALSE]
BaselineSite == [tag_path |-> "003a,0213", default |-> PyInt(0), nested |-> FALSE]
MeaningSite == [tag_path |-> "003a,0208", default |-> PyStr(S_meaning), nested |-> TRUE]
UnitSite == [tag_path |-> "003a,0211", default |-> PyStr(S_unit), nested |-> TRUE]

ExtractAt(sequence, site) ==
    safe_extract_channel_def(sequence, site.tag_path, site.default, site.nested)

(***************************************************************************)
(* The manual decode path (custom_parser=True).                            *)
(***************************************************************************)
\* One element of np.frombuffer(waveform_data, np.int16): two bytes, low
\* byte first, two's complement.
Int16At(waveform_data, k) ==
    LET u == waveform_data[2 * k - 1] + 256 * waveform_data[2 * k] IN
    IF u >= 32768 THEN u - 65536 ELSE u

\* np.frombuffer(waveform_data, np.int16)
FromBuffer(waveform_data) ==
    IF Len(waveform_data) % 2 # 0 THEN [exc |-> "ValueError", data |-> <<>>]
    ELSE [exc |-> "none",
          data |-> [k \in 1..(Len(waveform_data) \div 2) |-> Int16At(waveform_data, k)]]

\* A reshape that drops the elements that do not fill a row.
ReshapeTruncating(flat, rows, channel_count) ==
    [exc |-> "none",
     data |-> [r \in 1..rows |->
                 [c \in 1..channel_count |-> flat[(r - 1) * channel_count + c]]]]

\* flat.reshape((rows, channel_count)): row-major, and an error when the
\* sizes differ.
Reshape(flat, rows, channel_count) ==
    IF rows * channel_count # Len(flat) THEN [exc |-> "ValueError", data |-> <<>>]
    ELSE [exc |-> "none",
          data |-> [r \in 1..rows |->
                      [c \in 1..channel_count |-> flat[(r - 1) * channel_count + c]]]]

\* np.array(list) of the calibration values is numeric only when every
\* element is a number; one placeholder string makes it an array of strings.
IsNumericList(values) == \A k \in 1..Len(values) : values[k].t \in {"float", "int"}

\* The baseline added after the scaling.
CalibrateScaleFirst(raw, baseline, sensitivity, correction_factor) ==
    raw * sensitivity * correction_factor + baseline

\* (baseline + raw) * sensitivity * correction_factor for one element
Calibrate(raw, baseline, sensitivity, correction_factor) ==
    (baseline + raw) * sensitivity * correction_factor

\* Lines 287-293: the buffer to the calibrated matrix (a sequence of rows).
ManualDecode(waveform_data, channel_count, channel_baseline, channel_sensitivity, channel_sensitivity_correction_factor) ==
    LET flat == FromBuffer(waveform_data) IN
    IF flat.exc # "none" THEN flat
    ELSE IF channel_count = 0 THEN [exc |-> "ZeroDivisionError", data |-> <<>>]
    ELSE
      LET shaped == Reshape(flat.data, Len(flat.data) \div channel_count, channel_count) IN
      IF shaped.exc # "none" THEN shaped
      ELSE IF ~(/\ IsNumericList(channel_baseline)
                /\ IsNumericList(channel_sensitivity)
                /\ IsNumericList(channel_sensitivity_correction_factor))
        THEN [exc |-> "TypeError", data |-> <<>>]
      ELSE [exc |-> "none",
            data |-> [r \in 1..Len(shaped.data) |->
                        [c \in 1..channel_count |->
                           Calibrate(shaped.data[r][c], channel_baseline[c].v,
                                     channel_sensitivity[c].v,
                                     channel_sensitivity_correction_factor[c].v)]]]

(***************************************************************************)
(* safe_extract_channel_def alone: every sequence of at most MaxSeqLen     *)
(* items, each lacking the tag or holding one of EntryValues under it.     *)
(***************************************************************************)
S_AoP == <<"A", "o", "P">>
S_LVP == <<"L", "V", "P">>
S_mmHg == <<"m", "m", "H", "g">>

CodeValueTag == "0008,0100"
\* A coded concept item with its code meaning, and one without.
ConceptWithMeaning == (CodeMeaningTag :> PyStr(S_mmHg))
ConceptWithoutMeaning == (CodeValueTag :> PyStr(S_mmHg))

EntryValues ==
    {PyFloat(2), PyStr(S_AoP), PySeq(<<>>), PySeq(<<ConceptWithMeaning>>),
     PySeq(<<ConceptWithoutMeaning>>)}

\* An item that lacks every tag the extractor asks for.
ItemWithout == (CodeValueTag :> PyNone)

ItemsFor(tag_path) == {ItemWithout} \cup {(tag_path :> e) : e \in EntryValues}

ExtractSites == {LabelSite, BaselineSite, SensitivitySite, MeaningSite}

Idle == <<>>

InitExtract ==
    /\ pc = "call"
    /\ \E n \in 0..MaxSeqLen, st \in ExtractSites :
         \E q \in [1..n -> ItemsFor(st.tag_path)] :
            call = [sequence |-> q, site |-> st]
    /\ ret = Idle
    /\ i_w = 0
    /\ content_info = Idle
    /\ waveform_df_dict = Idle
    /\ frame = Idle
    /\ exc = "none"

\* The call returns its list, or the exception it does not catch leaves it.
CallSafeExtract ==
    /\ pc = "call"
    /\ LET got == ExtractAt(call.sequence, call.site) IN
         /\ pc' = IF got.exc = "none" THEN "returned" ELSE "raised"
         /\ ret' = IF got.exc = "none" THEN got.results ELSE Idle
         /\ exc' = got.exc
    /\ UNCHANGED <<call, i_w, content_info, waveform_df_dict, frame>>

NextExtract == CallSafeExtract

SpecExtract == InitExtract /\ [][NextExtract]_vars

(***************************************************************************)
(* The manual decode alone: every buffer of at most MaxBytes bytes and     *)
(* every calibration of at most MaxChannels channels.                      *)
(***************************************************************************)
ByteValues == {1, 255}

\* (baseline, sensitivity, correction factor) of one channel
Calibrations == {<<0, 1, 1>>, <<2, 3, 1>>, <<1, 2, 3>>}

\* The calibration lists of a group whose channels have calibrations q.
DecodeCall(waveform_data, q) ==
    [waveform_data |-> waveform_data,
     channel_baseline |-> [c \in 1..Len(q) |-> PyFloat(q[c][1])],
     channel_sensitivity |-> [c \in 1..Len(q) |-> PyFloat(q[c][2])],
     channel_sensitivity_correction_factor |-> [c \in 1..Len(q) |-> PyFloat(q[c][3])]]

InitDecode ==
    /\ pc = "call"
    /\ \E n \in 0..MaxBytes, channel_count \in 1..MaxChannels :
         \E b \in [1..n -> ByteValues], q \in [1..channel_count -> Calibrations] :
            call = DecodeCall(b, q)
    /\ ret = Idle
    /\ i_w = 0
    /\ content_info = Idle
    /\ waveform_df_dict = Idle
    /\ frame = Idle
    /\ exc = "none"

CallManualDecode ==
    /\ pc = "call"
    /\ LET got == ManualDecode(call.waveform_data, Len(call.channel_baseline),
                               call.channel_baseline, call.channel_sensitivity,
                               call.channel_sensitivity_correction_factor) IN
         /\ pc' = IF got.exc = "none" THEN "returned" ELSE "raised"
         /\ ret' = got.data
         /\ exc' = got.exc
    /\ UNCHANGED <<call, i_w, content_info, waveform_df_dict, frame>>

NextDecode == CallManualDecode

SpecDecode == InitDecode /\ [][NextDecode]_vars

(***************************************************************************)
(* extract_waveform_data_form_dcm.                                         *)
(*                                                                         *)
(* A dict is the sequence of its [key, value] entries in insertion order.  *)
(* A table (DataFrame) is the sequence of its columns [name, data].        *)
(***************************************************************************)
DictHas(d, key) == \E k \in 1..Len(d) : d[k].key = key

DictGet(d, key) == d[CHOOSE k \in 1..Len(d) : d[k].key = key].value

\* d[key] = value: an existing key keeps its place and takes the new value.
DictSet(d, key, value) ==
    IF DictHas(d, key)
      THEN [k \in 1..Len(d) |-> IF d[k].key = key THEN [key |-> key, value |-> value] ELSE d[k]]
    ELSE Append(d, [key |-> key, value |-> value])

ColumnNames(df) == [k \in 1..Len(df) |-> df[k].name]

\* df[name] = data: a column of that name is overwritten, else one is added.
FrameSet(df, name, data) ==
    IF \E k \in 1..Len(df) : df[k].name = name
      THEN [k \in 1..Len(df) |-> IF df[k].name = name THEN [name |-> name, data |-> data] ELSE df[k]]
    ELSE Append(df, [name |-> name, data |-> data])

RECURSIVE FrameSelect(_, _)
\* df[selected_cols]: for each listed name in turn, the columns of that name.
FrameSelect(df, selected_cols) ==
    IF Len(selected_cols) = 0 THEN <<>>
    ELSE SelectSeq(df, LAMBDA col : col.name = selected_cols[1])
         \o FrameSelect(df, Tail(selected_cols))

S_Time == <<"T", "i", "m", "e">>
S_DateTime == <<"D", "a", "t", "e", "T", "i", "m", "e">>
S_PRESSURE == <<"P", "R", "E", "S", "S", "U", "R", "E">>
S_pressure == <<"p", "r", "e", "s", "s", "u", "r", "e">>
S_ECG == <<"E", "C", "G">>
S_UNKNOWN_DATETIME == Upper(<<"u", "n", "k", "n", "o", "w", "n", "_">> \o S_DateTime)

\* The defaults of the parameters datetime_col and time_col.
datetime_col == S_DateTime
time_col == S_Time

\* Pairs (rows, frequency) for which IEEE double gives
\* ceil((rows / frequency) / (1.0 / frequency)) = rows + 1, for the
\* frequencies of the model: np.arange then yields one point more.
ArangeExcess ==
    {<<3, 17>>, <<6, 17>>, <<12, 17>>, <<5, 3>>, <<7, 3>>, <<10, 3>>, <<14, 3>>}

\* len(np.arange(0, rows / frequency, step=1.0 / frequency))
ArangeLen(rows, frequency) ==
    IF <<rows, frequency>> \in ArangeExcess THEN rows + 1 ELSE rows

\* A time point i / frequency, kept as a fraction.
TimePoint(i, frequency) == [num |-> i, den |-> frequency]

\* timedelta(seconds=num/den) in microseconds, rounded to the nearest.
Micros(num, den) == (2 * 1000000 * num + den) \div (2 * den)

PyDatetime(us) == [t |-> "datetime", v |-> us]

\* "if start_datetime": None is false, a datetime is true.
Truthy(value) == value.t # "none"

\* The test with equality in the place of the prefix.
AcceptedExact(colname, accepted_colnames) ==
    \E k \in 1..Len(accepted_colnames) : colname = accepted_colnames[k]

\* The prefix test of line 317.
Accepted(colname, accepted_colnames) ==
    \E k \in 1..Len(accepted_colnames) : StartsWith(colname, accepted_colnames[k])

(***************************************************************************)
(* The inputs of the whole function.                                       *)
(***************************************************************************)
S_Aortic == <<"A", "o", "r", "t", "i", "c">>
S_Ao == <<"A", "o">>
S_L == <<"L">>
S_T == <<"T">>

\* A channel definition item holding every tag, with calibration q; its
\* meaning names its label.
Channel(label, q) ==
    (LabelSite.tag_path :> PyStr(label)) @@ (BitsSite.tag_path :> PyInt(16))
    @@ (BaselineSite.tag_path :> PyFloat(q[1]))
    @@ (SensitivitySite.tag_path :> PyFloat(q[2]))
    @@ (CorrectionSite.tag_path :> PyFloat(q[3]))
    @@ (MeaningSite.tag_path :> PySeq(<<(CodeMeaningTag :> PyStr(S_Aortic \o label))>>))
    @@ (UnitSite.tag_path :> PySeq(<<ConceptWithMeaning>>))

ChanAoP == Channel(S_AoP, <<1, 2, 1>>)
ChanLVP == Channel(S_LVP, <<0, 1, 3>>)
\* The same channel without its sensitivity tag.
ChanNoSens ==
    [tg \in (DOMAIN ChanLVP) \ {SensitivitySite.tag_path} |-> ChanLVP[tg]]

Channels == {ChanAoP, ChanLVP, ChanNoSens}

\* A channel whose label is the name of the time column.
ChanTime == Channel(S_Time, <<0, 1, 1>>)

\* Byte k of the sample buffers of the files: the samples 1, -253, 5, -249, ...
FileByte(k) == IF k % 2 = 1 THEN k ELSE IF k % 4 = 0 THEN 255 ELSE 0

FileBuffer(n) == [k \in 1..n |-> FileByte(k)]

\* One item of the waveform sequence.  The declared number of samples is
\* the one the buffer holds.
Group(channel_group, sampling_frequency, defs, n) ==
    [channel_group |-> channel_group,
     sampling_frequency |-> sampling_frequency,
     num_of_samples |-> n \div (2 * Len(defs)),
     channel_definition_sequence |-> defs,
     waveform_data |-> FileBuffer(n)]

GroupIds == {S_PRESSURE, S_ECG, S_pressure}
Frequencies == {1, 17}

\* Groups for the files of several groups: two that decode, one whose buffer
\* has a trailing byte, one with a channel lacking its sensitivity, one whose
\* identifier is in another case, one with a channel labelled as the time
\* column.
RefGroups ==
    {Group(S_PRESSURE, 1, <<ChanAoP, ChanLVP>>, 8),
     Group(S_ECG, 17, <<ChanLVP>>, 6),
     Group(S_ECG, 1, <<ChanAoP, ChanLVP>>, 5),
     Group(S_PRESSURE, 17, <<ChanAoP, ChanNoSens>>, 8),
     Group(S_pressure, 1, <<ChanAoP>>, 2),
     Group(S_ECG, 1, <<ChanTime, ChanAoP>>, 4)}

PyList(items) == [t |-> "list", v |-> items]
PyDict(entries) == [t |-> "dict", v |-> entries]

\* The values of relevant_channels.
RelevantChannels ==
    {PyNone,
     PyDict(<<[key |-> S_PRESSURE, value |-> PyList(<<S_Ao>>)]>>),
     PyDict(<<[key |-> S_PRESSURE, value |-> PyList(<<S_L, S_Ao>>)],
              [key |-> S_ECG, value |-> PyList(<<S_T>>)]>>),
     PyDict(<<[key |-> S_PRESSURE, value |-> PyList(<<>>)],
              [key |-> S_ECG, value |-> PyList(<<S_Ao>>)]>>),
     PyDict(<<[key |-> S_ECG, value |-> PyStr(S_Ao)]>>)}

\* global_metadata with and without a content datetime.
GlobalMetadata ==
    {("CONTENT_DATETIME" :> PyDatetime(0)), ("CONTENT_DATETIME" :> PyNone)}

\* (extract_data, custom_parser)
Modes == {<<TRUE, TRUE>>, <<TRUE, FALSE>>, <<FALSE, FALSE>>}

\* dict.get(key): None for a missing key
MetaGet(d, key) == IF key \in DOMAIN d THEN d[key] ELSE PyNone

\* relevant_channels.get(channel_group)
RelevantGet(relevant_channels, channel_group) ==
    IF DictHas(relevant_channels.v, channel_group)
      THEN DictGet(relevant_channels.v, channel_group)
    ELSE PyNone

Arguments(dcm, meta, rc, mode) ==
    [dcm |-> dcm, global_metadata |-> meta, relevant_channels |-> rc,
     extract_data |-> mode[1], custom_parser |-> mode[2]]

\* A file of one group of any kind, or of several of the groups above.
Init ==
    /\ pc = "start"
    /\ \E meta \in GlobalMetadata, rc \in RelevantChannels, mode \in Modes :
         \/ \E id \in GroupIds, fq \in Frequencies, n \in 0..MaxBytes,
               channel_count \in 1..MaxChannels :
              \E defs \in [1..channel_count -> Channels] :
                 call = Arguments(<<Group(id, fq, defs, n)>>, meta, rc, mode)
         \/ \E count \in 2..MaxGroups :
              \E dcm \in [1..count -> RefGroups] :
                 call = Arguments(dcm, meta, rc, mode)
    /\ ret = Idle
    /\ i_w = 0
    /\ content_info = Idle
    /\ waveform_df_dict = Idle
    /\ frame = Idle
    /\ exc = "none"

(***************************************************************************)
(* The steps of extract_waveform_data_form_dcm.                            *)
(***************************************************************************)
waveform_base == call.dcm

start_datetime == MetaGet(call.global_metadata, "CONTENT_DATETIME")

\* strftime of a datetime, kept as the instant it prints
Strftime(dt) == [t |-> "strftime", v |-> dt.v]

S_UNKNOWN_START == <<"U", "N", "K", "N", "O", "W", "N", "_", "S", "T", "A", "R", "T">>
S_UNKNOWN_END == <<"U", "N", "K", "N", "O", "W", "N", "_", "E", "N", "D">>

\* format_datetime_fields
format_datetime_fields(start, end) ==
    ("START_DATETIME" :> Strftime(start)) @@ ("END_DATETIME" :> Strftime(end))

\* The timing fields taken from the last group of the file.
InitialContentInfoLastGroup ==
    LET freq == waveform_base[Len(waveform_base)].sampling_frequency
        num_of_samples == waveform_base[Len(waveform_base)].num_of_samples
        end_datetime ==
            IF Truthy(start_datetime)
              THEN PyDatetime(start_datetime.v + Micros(num_of_samples - 1, freq))
            ELSE PyNone
    IN  (IF Truthy(start_datetime)
           THEN format_datetime_fields(start_datetime, end_datetime)
         ELSE ("START" :> PyStr(S_UNKNOWN_START)) @@ ("END" :> PyStr(S_UNKNOWN_END)))
        @@ ("DURATION" :> [num |-> num_of_samples, den |-> freq])
        @@ ("FREQUENCY" :> freq)
        @@ ("NUMBER_OF_SAMPLES" :> num_of_samples)
        @@ ("PRESSURE_SITES" :> <<>>)
        @@ ("CHANNEL_INFO" :> <<>>)

\* Lines 219-247: the timing fields and the empty catalogs.  The identity
\* fields copied from global_metadata are left out.
InitialContentInfo ==
    LET freq == waveform_base[1].sampling_frequency
        num_of_samples == waveform_base[1].num_of_samples
        end_datetime ==
            IF Truthy(start_datetime)
              THEN PyDatetime(start_datetime.v + Micros(num_of_samples - 1, freq))
            ELSE PyNone
    IN  (IF Truthy(start_datetime)
           THEN format_datetime_fields(start_datetime, end_datetime)
         ELSE ("START" :> PyStr(S_UNKNOWN_START)) @@ ("END" :> PyStr(S_UNKNOWN_END)))
        @@ ("DURATION" :> [num |-> num_of_samples, den |-> freq])
        @@ ("FREQUENCY" :> freq)
        @@ ("NUMBER_OF_SAMPLES" :> num_of_samples)
        @@ ("PRESSURE_SITES" :> <<>>)
        @@ ("CHANNEL_INFO" :> <<>>)

\* The exception leaves the function: nothing is returned.
Throw(e) ==
    /\ pc' = "raised"
    /\ exc' = e
    /\ ret' = Idle
    /\ frame' = Idle

\* Lines 199-249.
Begin ==
    /\ pc = "start"
    /\ pc' = "group"
    /\ i_w' = 0
    /\ content_info' = InitialContentInfo
    /\ waveform_df_dict' = <<>>
    /\ UNCHANGED <<call, ret, frame, exc>>

\* The first of the extractions that raises, if one does.
FirstRaised(outs) ==
    IF \E k \in 1..Len(outs) : outs[k].exc # "none"
      THEN outs[CHOOSE k \in 1..Len(outs) :
                  /\ outs[k].exc # "none"
                  /\ \A j \in 1..(k - 1) : outs[j].exc = "none"].exc
    ELSE "none"

\* Lines 252-283: the channel lists of group i_w and its CHANNEL_INFO entry.
ReadChannelInfo ==
    /\ pc = "group"
    /\ i_w < Len(waveform_base)
    /\ LET g == waveform_base[i_w + 1]
           channel_definition_sequence == g.channel_definition_sequence
           channel_label == ExtractAt(channel_definition_sequence, LabelSite)
           channel_bits == ExtractAt(channel_definition_sequence, BitsSite)
           channel_sensitivity == ExtractAt(channel_definition_sequence, SensitivitySite)
           channel_sensitivity_correction_factor ==
               ExtractAt(channel_definition_sequence, CorrectionSite)
           channel_baseline == ExtractAt(channel_definition_sequence, BaselineSite)
           channel_meaning == ExtractAt(channel_definition_sequence, MeaningSite)
           channel_units == ExtractAt(channel_definition_sequence, UnitSite)
           raised == FirstRaised(<<channel_label, channel_bits, channel_sensitivity,
                                   channel_sensitivity_correction_factor, channel_baseline,
                                   channel_meaning, channel_units>>)
           channel_info ==
               [LABELS |-> channel_label.results,
                UNIT |-> channel_units.results,
                MEANING |-> channel_meaning.results,
                SENSITIVITY |-> channel_sensitivity.results,
                BASELINE |-> channel_baseline.results,
                CORRECTION_FACTOR |-> channel_sensitivity_correction_factor.results]
       IN
         IF raised # "none"
           THEN Throw(raised) /\ UNCHANGED <<call, i_w, content_info, waveform_df_dict>>
         ELSE
           /\ content_info' =
                [content_info EXCEPT !["CHANNEL_INFO"] =
                    DictSet(@, g.channel_group, channel_info)]
           /\ IF ~call.extract_data
                THEN /\ i_w' = i_w + 1
                     /\ UNCHANGED <<pc, frame>>
              ELSE /\ pc' = "decode"
                   /\ frame' = [channel_group |-> g.channel_group,
                                sampling_frequency |-> g.sampling_frequency,
                                channel_count |-> Len(channel_definition_sequence),
                                channel_label |-> channel_label.results,
                                channel_meaning |-> channel_meaning.results,
                                channel_sensitivity |-> channel_sensitivity.results,
                                channel_sensitivity_correction_factor |->
                                    channel_sensitivity_correction_factor.results,
                                channel_baseline |-> channel_baseline.results,
                                parsed_data |-> <<>>,
                                df |-> <<>>]
                   /\ UNCHANGED i_w
           /\ UNCHANGED <<call, ret, waveform_df_dict, exc>>

\* Lines 285-293: custom_parser=True.
DecodeManual ==
    /\ pc = "decode"
    /\ call.custom_parser
    /\ LET got == ManualDecode(waveform_base[i_w + 1].waveform_data, frame.channel_count,
                               frame.channel_baseline, frame.channel_sensitivity,
                               frame.channel_sensitivity_correction_factor) IN
         IF got.exc # "none"
           THEN Throw(got.exc)
         ELSE /\ pc' = "table"
              /\ frame' = [frame EXCEPT !.parsed_data = got.data]
              /\ UNCHANGED <<ret, exc>>
    /\ UNCHANGED <<call, i_w, content_info, waveform_df_dict>>

\* A matrix of the library: the sample of row r and channel c
LibraryMatrix(rows, channel_count) ==
    [r \in 1..rows |-> [c \in 1..channel_count |-> 10 * r + c]]

\* Lines 294-295: dcm.waveform_array(i_w) is pydicom's; it gives a matrix of
\* the declared number of samples, or raises.
DecodeLibrary ==
    /\ pc = "decode"
    /\ ~call.custom_parser
    /\ \/ /\ pc' = "table"
          /\ frame' = [frame EXCEPT !.parsed_data =
                          LibraryMatrix(waveform_base[i_w + 1].num_of_samples,
                                        frame.channel_count)]
          /\ UNCHANGED <<ret, exc>>
       \/ Throw("ValueError")
    /\ UNCHANGED <<call, i_w, content_info, waveform_df_dict>>

Min(a, b) == IF a < b THEN a ELSE b

\* The column with a padding row.
ColumnOfPadded(parsed_data, c) ==
    [r \in 1..(Len(parsed_data) + 1) |->
        IF r <= Len(parsed_data) THEN parsed_data[r][c] ELSE 0]

\* parsed_data[:, channel_index]
ColumnOf(parsed_data, c) == [r \in 1..Len(parsed_data) |-> parsed_data[r][c]]

\* A column of floats: the value x is the fraction x / 1, as a time point is.
FloatCells(column) == [r \in 1..Len(column) |-> [num |-> column[r], den |-> 1]]

\* The test with the case of the identifier ignored.
IsPressureGroupAnyCase(channel_group) == Upper(channel_group) = S_PRESSURE

\* Line 308: str(channel_group) == str("PRESSURE")
IsPressureGroup(channel_group) == channel_group = S_PRESSURE

RECURSIVE ChannelLoop(_, _, _, _, _, _)
\* Lines 307-311 from channel_index on (1-based here): the pressure sites and
\* the value columns.
ChannelLoop(channel_group, channel_label, channel_meaning, parsed_data, channel_index, acc) ==
    IF channel_index > Len(channel_label) THEN acc
    ELSE
      LET sites == IF IsPressureGroup(channel_group)
                     THEN DictSet(acc.sites, channel_label[channel_index],
                                  channel_meaning[channel_index])
                   ELSE acc.sites
          df == FrameSet(acc.df, Format(channel_label[channel_index]),
                         FloatCells(ColumnOf(parsed_data, channel_index)))
      IN ChannelLoop(channel_group, channel_label, channel_meaning, parsed_data,
                     channel_index + 1, [sites |-> sites, df |-> df])

\* Lines 297-311: the time axis, the reconciliation of the lengths, the table.
BuildTable ==
    /\ pc = "table"
    /\ LET rows == Len(frame.parsed_data)
           time_len == ArangeLen(rows, frame.sampling_frequency)
           min_shape == Min(time_len, rows)
           time == [k \in 1..min_shape |-> TimePoint(k - 1, frame.sampling_frequency)]
           parsed_data == SubSeq(frame.parsed_data, 1, min_shape)
           built == ChannelLoop(frame.channel_group, frame.channel_label,
                                frame.channel_meaning, parsed_data, 1,
                                [sites |-> content_info["PRESSURE_SITES"],
                                 df |-> FrameSet(<<>>, time_col, time)])
       IN /\ content_info' = [content_info EXCEPT !["PRESSURE_SITES"] = built.sites]
          /\ frame' = [frame EXCEPT !.parsed_data = parsed_data, !.df = built.df]
    /\ pc' = "filter"
    /\ UNCHANGED <<call, ret, i_w, waveform_df_dict, exc>>

\* Line 317
SelectedCols(df, accepted_colnames) ==
    <<time_col>> \o SelectSeq(ColumnNames(df), LAMBDA colname : Accepted(colname, accepted_colnames))

\* The allow-list with a group the mapping does not map to a list kept as a
\* table of the time column alone.
FilteredKeepingAbsent(df, relevant_channels, channel_group) ==
    IF relevant_channels.t # "dict" THEN [dropped |-> FALSE, df |-> df]
    ELSE IF RelevantGet(relevant_channels, channel_group).t = "list"
      THEN [dropped |-> FALSE,
            df |-> FrameSelect(df, SelectedCols(df, RelevantGet(relevant_channels,
                                                                 channel_group).v))]
    ELSE [dropped |-> FALSE, df |-> FrameSelect(df, <<time_col>>)]

\* Lines 313-320: the table after the allow-list; "dropped" for a group the
\* mapping does not map to a list.
Filtered(df, relevant_channels, channel_group) ==
    IF relevant_channels.t # "dict" THEN [dropped |-> FALSE, df |-> df]
    ELSE IF RelevantGet(relevant_channels, channel_group).t = "list"
      THEN [dropped |-> FALSE,
            df |-> FrameSelect(df, SelectedCols(df, RelevantGet(relevant_channels,
                                                                 channel_group).v))]
    ELSE [dropped |-> TRUE, df |-> df]

Count(df, name) == Cardinality({k \in 1..Len(df) : df[k].name = name})

TimeColumn(df) == df[CHOOSE k \in 1..Len(df) : df[k].name = time_col].data

\* The datetime column left null when the start datetime is unknown.
WithDatetimeNull(df) ==
    IF Truthy(start_datetime)
      THEN IF Count(df, time_col) > 1
             THEN [exc |-> IF Len(df[1].data) > 1 THEN "TypeError" ELSE "ValueError",
                   df |-> df]
           ELSE [exc |-> "none",
                 df |-> FrameSet(df, datetime_col,
                          [k \in 1..Len(TimeColumn(df)) |->
                             PyDatetime(start_datetime.v
                                        + Micros(TimeColumn(df)[k].num,
                                                 TimeColumn(df)[k].den))])]
    ELSE [exc |-> "none",
          df |-> FrameSet(df, datetime_col, [k \in 1..Len(df[1].data) |-> PyNone])]

\* Lines 321-324.  With the time column selected twice df[time_col] is a
\* table and apply hands whole columns to the lambda: float() of a column of
\* several rows is a TypeError, and for at most one row the assignment of
\* what apply gives, labelled twice by the time column, is a ValueError.
WithDatetime(df) ==
    IF Truthy(start_datetime)
      THEN IF Count(df, time_col) > 1
             THEN [exc |-> IF Len(df[1].data) > 1 THEN "TypeError" ELSE "ValueError",
                   df |-> df]
           ELSE [exc |-> "none",
                 df |-> FrameSet(df, datetime_col,
                          [k \in 1..Len(TimeColumn(df)) |->
                             PyDatetime(start_datetime.v
                                        + Micros(TimeColumn(df)[k].num,
                                                 TimeColumn(df)[k].den))])]
    ELSE [exc |-> "none",
          df |-> FrameSet(df, datetime_col,
                          [k \in 1..Len(df[1].data) |-> PyStr(S_UNKNOWN_DATETIME)])]

\* Lines 313-326: the allow-list, the datetime column, the entry of the
\* group in waveform_df_dict.
FilterAndStore ==
    /\ pc = "filter"
    /\ LET kept == Filtered(frame.df, call.relevant_channels, frame.channel_group)
           dated == WithDatetime(kept.df)
       IN IF kept.dropped
            THEN /\ pc' = "group"
                 /\ i_w' = i_w + 1
                 /\ frame' = Idle
                 /\ UNCHANGED <<ret, waveform_df_dict, exc>>
          ELSE IF dated.exc # "none"
            THEN Throw(dated.exc) /\ UNCHANGED <<i_w, waveform_df_dict>>
          ELSE /\ pc' = "group"
               /\ i_w' = i_w + 1
               /\ frame' = Idle
               /\ waveform_df_dict' = DictSet(waveform_df_dict, frame.channel_group, dated.df)
               /\ UNCHANGED <<ret, exc>>
    /\ UNCHANGED <<call, content_info>>

\* Line 328.
Return ==
    /\ pc = "group"
    /\ i_w = Len(waveform_base)
    /\ pc' = "returned"
    /\ ret' = [waveform_df_dict |-> waveform_df_dict, content_info |-> content_info]
    /\ UNCHANGED <<call, i_w, content_info, waveform_df_dict, frame, exc>>

Next ==
    \/ Begin
    \/ ReadChannelInfo
    \/ DecodeManual
    \/ DecodeLibrary
    \/ BuildTable
    \/ FilterAndStore
    \/ Return

Spec == Init /\ [][Next]_vars

(***************************************************************************)
(* Claims about safe_extract_channel_def (SpecExtract).                    *)
(***************************************************************************)
\* What the try block gives for item k of the call
ItemOutcome(k) ==
    TryExtract(call.sequence[k], call.site.tag_path, call.site.default, call.site.nested)

\* The extraction of item k failed with an exception the function catches.
ItemFailed(k) == ItemOutcome(k).exc \in CaughtExceptions

\* C4: safe_extract_channel_def never raises, whatever the items hold, a
\* value that does not convert to a number included.
C4_NeverRaises == pc # "raised"

\* C6: the returned list has one element per item, and element k is what
\* item k gives: its value, or the placeholder of position k.
C6_ListAligned ==
    pc = "returned" =>
      /\ Len(ret) = Len(call.sequence)
      /\ \A k \in 1..Len(call.sequence) :
            ret[k] = IF ItemOutcome(k).exc = "none" THEN ItemOutcome(k).value
                     ELSE PyStr(Placeholder(call.site.default, k))

C6_Witness ==
    /\ pc = "returned"
    /\ Len(ret) >= 3
    /\ \E j, k \in 1..Len(ret) : j < k /\ ItemFailed(j) /\ ~ItemFailed(k)

\* "UNK.<DEFAULT>_" as it is printed for each default
PlaceholderHead(default) ==
    CASE default = PyStr(S_label) -> <<"U", "N", "K", ".", "L", "A", "B", "E", "L", "_">>
      [] default = PyStr(S_meaning) ->
            <<"U", "N", "K", ".", "M", "E", "A", "N", "I", "N", "G", "_">>
      [] default = PyInt(0) -> <<"U", "N", "K", ".", "0", "_">>
      [] default = PyFloat(1) -> <<"U", "N", "K", ".", "1", ".", "0", "_">>

\* C7: a failed extraction at 1-based position i is replaced by
\* UNK.<DEFAULT>_<i> in upper case, and no two placeholders of a list are equal.
C7_PlaceholderUnique ==
    pc = "returned" =>
      /\ \A k \in 1..Len(call.sequence) :
            ItemFailed(k) =>
              ret[k] = PyStr(PlaceholderHead(call.site.default) \o IntToStr(k))
      /\ \A j, k \in 1..Len(call.sequence) :
            (j < k /\ ItemFailed(j) /\ ItemFailed(k)) => ret[j] # ret[k]

C7_Witness ==
    /\ pc = "returned"
    /\ \E j, k \in 1..Len(call.sequence) : j < k /\ ItemFailed(j) /\ ItemFailed(k)

\* Scenario B: five channel definitions, the sensitivity asked for, the tag
\* missing from the item at 0-based index 3 alone, floats in the others.
ScenarioB ==
    /\ call.site = SensitivitySite
    /\ Len(call.sequence) = 5
    /\ \A k \in 1..5 :
          IF k = 4 THEN SensitivitySite.tag_path \notin DOMAIN call.sequence[k]
          ELSE /\ SensitivitySite.tag_path \in DOMAIN call.sequence[k]
               /\ call.sequence[k][SensitivitySite.tag_path].t = "float"

\* C8 as stated: in scenario B the list holds "UNK.1.0_3" at 0-based index 3
\* and floats at the four other indices.
C8_ScenarioB_Index3 ==
    (pc = "returned" /\ ScenarioB) =>
      /\ ret[4] = PyStr(<<"U", "N", "K", ".", "1", ".", "0", "_", "3">>)
      /\ \A k \in {1, 2, 3, 5} : ret[k].t = "float"

\* C8 amended: in scenario B the list holds "UNK.1.0_4", the index counting
\* from 1, at 0-based index 3 and floats at the four other indices.
C8_ScenarioB_Index4 ==
    (pc = "returned" /\ ScenarioB) =>
      /\ ret[4] = PyStr(<<"U", "N", "K", ".", "1", ".", "0", "_", "4">>)
      /\ \A k \in {1, 2, 3, 5} : ret[k].t = "float"

C8_Witness == pc = "returned" /\ ScenarioB

(***************************************************************************)
(* Claims about the manual decode (SpecDecode).                            *)
(***************************************************************************)
\* The 0-based k-th signed 16-bit value of the buffer of the call
RawSample(k) == Int16At(call.waveform_data, k + 1)

\* C2: a buffer of N x C values decodes to N rows of C columns with
\* physical[i][c] = (raw[i*C + c] + baseline[c]) * sensitivity[c] * correction[c];
\* with baseline 0, sensitivity 1 and correction 1 the values are the raw ones.
C2_PhysicalFormula ==
    pc = "returned" =>
      LET C == Len(call.channel_baseline)
          N == Len(call.waveform_data) \div (2 * C)
      IN /\ Len(ret) = N
         /\ \A i \in 0..(N - 1) :
              /\ Len(ret[i + 1]) = C
              /\ \A c \in 0..(C - 1) :
                   /\ ret[i + 1][c + 1] =
                        (RawSample(i * C + c) + call.channel_baseline[c + 1].v)
                        * call.channel_sensitivity[c + 1].v
                        * call.channel_sensitivity_correction_factor[c + 1].v
                   /\ (/\ call.channel_baseline[c + 1].v = 0
                       /\ call.channel_sensitivity[c + 1].v = 1
                       /\ call.channel_sensitivity_correction_factor[c + 1].v = 1)
                      => ret[i + 1][c + 1] = RawSample(i * C + c)

C2_Witness ==
    /\ pc = "returned"
    /\ Len(ret) >= 2
    /\ Len(call.channel_baseline) = 2
    /\ call.channel_baseline[1].v # 0
    /\ call.channel_sensitivity[2].v # 1

\* C3: the decode fails exactly when the byte length of the buffer is not a
\* multiple of channel_count x 2, and then returns no matrix.
C3_LayoutError ==
    pc # "call" =>
      LET C == Len(call.channel_baseline) IN
      /\ (Len(call.waveform_data) % (2 * C) # 0) => (pc = "raised" /\ exc = "ValueError")
      /\ (Len(call.waveform_data) % (2 * C) = 0) => pc = "returned"

C3_Witness ==
    /\ pc = "raised"
    /\ Len(call.waveform_data) % 2 = 0
    /\ Len(call.waveform_data) > 2 * Len(call.channel_baseline)

(***************************************************************************)
(* Claims about extract_waveform_data_form_dcm (Spec).                     *)
(***************************************************************************)
Terminated == pc \in {"returned", "raised"}

\* Group j of the file decodes on the manual path when taken alone.
DecodesAlone(j) ==
    LET g == waveform_base[j]
        defs == g.channel_definition_sequence
    IN ManualDecode(g.waveform_data, Len(defs),
                    ExtractAt(defs, BaselineSite).results,
                    ExtractAt(defs, SensitivitySite).results,
                    ExtractAt(defs, CorrectionSite).results).exc = "none"

\* C1: on the manual path a group that fails to decode does not abort the
\* others: every group that decodes has its table in what is returned.
C1_GroupFailureIsolated ==
    (Terminated /\ call.custom_parser /\ call.extract_data
       /\ call.relevant_channels = PyNone) =>
      \A j \in 1..Len(waveform_base) :
         DecodesAlone(j) =>
           /\ pc = "returned"
           /\ DictHas(ret.waveform_df_dict, waveform_base[j].channel_group)

\* C5: a numeric calibration attribute that cannot be extracted for one
\* channel is recovered by its placeholder: on the manual path the call for
\* a file of one such group, its buffer well formed and not empty, still
\* returns the table of the group.
C5_PlaceholderRecovered ==
    (/\ Terminated /\ call.custom_parser /\ call.extract_data
     /\ call.relevant_channels = PyNone
     /\ Len(waveform_base) = 1
     /\ Len(waveform_base[1].waveform_data) > 0
     /\ Len(waveform_base[1].waveform_data)
          % (2 * Len(waveform_base[1].channel_definition_sequence)) = 0
     /\ \E k \in 1..Len(waveform_base[1].channel_definition_sequence) :
           waveform_base[1].channel_definition_sequence[k] = ChanNoSens) =>
      /\ pc = "returned"
      /\ DictHas(ret.waveform_df_dict, waveform_base[1].channel_group)

\* The rows of the matrix the decode of group j gives
DecodedRows(j) ==
    IF call.custom_parser
      THEN Len(waveform_base[j].waveform_data)
             \div (2 * Len(waveform_base[j].channel_definition_sequence))
    ELSE waveform_base[j].num_of_samples

\* min(length of the time axis, rows of the decoded matrix) for group j
ReconciledRows(j) ==
    Min(ArangeLen(DecodedRows(j), waveform_base[j].sampling_frequency), DecodedRows(j))

\* C9: the table of a decoded group has min(len(time axis), rows of the
\* matrix) rows: the time column and every value column have that length.
C9_RowCount ==
    /\ pc = "filter" =>
         /\ Len(frame.df) >= 2
         /\ frame.df[1].name = time_col
         /\ \A k \in 1..Len(frame.df) : Len(frame.df[k].data) = ReconciledRows(i_w + 1)
    /\ \A e \in 1..Len(waveform_df_dict) :
         \E j \in 1..Len(waveform_base) :
            /\ waveform_base[j].channel_group = waveform_df_dict[e].key
            /\ \A k \in 1..Len(waveform_df_dict[e].value) :
                  Len(waveform_df_dict[e].value[k].data) = ReconciledRows(j)

C9_Witness ==
    /\ pc = "filter"
    /\ ArangeLen(DecodedRows(i_w + 1), frame.sampling_frequency) # DecodedRows(i_w + 1)
    /\ Len(frame.df[1].data) = 3

\* The labels of the channels of group j
LabelsOf(j) ==
    {waveform_base[j].channel_definition_sequence[k][LabelSite.tag_path].v :
        k \in 1..Len(waveform_base[j].channel_definition_sequence)}

NamesOf(df) == {df[k].name : k \in 1..Len(df)}

\* The data of the columns of df named name
DataOf(df, name) == {df[k].data : k \in {m \in 1..Len(df) : df[m].name = name}}

\* The step that stores the table of the current group.
StoresTable == pc = "filter" /\ pc' = "group" /\ waveform_df_dict' # waveform_df_dict

\* C10: with a list of prefixes for a group the table returned for it keeps
\* the time column and, of the channel columns of the table, exactly those
\* whose label starts with one of the prefixes, each with its values; with no
\* allow-list it keeps every channel column.
C10_PrefixFilter ==
    [][StoresTable =>
         LET rc == call.relevant_channels
             stored == DictGet(waveform_df_dict', frame.channel_group)
             kept(name) ==
                 \/ rc = PyNone
                 \/ \E k \in 1..Len(RelevantGet(rc, frame.channel_group).v) :
                       StartsWith(name, RelevantGet(rc, frame.channel_group).v[k])
         IN /\ time_col \in NamesOf(stored)
            /\ NamesOf(stored) \subseteq NamesOf(frame.df) \cup {datetime_col}
            /\ \A name \in NamesOf(frame.df) \ {time_col, datetime_col} :
                  /\ name \in NamesOf(stored) <=> kept(name)
                  /\ name \in NamesOf(stored) => DataOf(stored, name) = DataOf(frame.df, name)
            /\ DataOf(stored, time_col) = DataOf(frame.df, time_col)]_vars

\* Scenario E: {"PRESSURE": ["Ao"]} and the channels AoP, LVP give the
\* columns Time, AoP and the datetime column.
C10_Witness ==
    /\ pc = "returned"
    /\ Len(waveform_base) = 1
    /\ waveform_base[1].channel_group = S_PRESSURE
    /\ LabelsOf(1) = {S_AoP, S_LVP}
    /\ call.relevant_channels = PyDict(<<[key |-> S_PRESSURE, value |-> PyList(<<S_Ao>>)]>>)
    /\ DictHas(ret.waveform_df_dict, S_PRESSURE)
    /\ NamesOf(DictGet(ret.waveform_df_dict, S_PRESSURE)) = {S_Time, S_AoP, S_DateTime}

\* The identifier is a key of the mapping relevant_channels.
IsKey(channel_group) ==
    /\ call.relevant_channels.t = "dict"
    /\ DictHas(call.relevant_channels.v, channel_group)

\* The identifier is a key of the mapping, mapped to a list.
IsListKey(channel_group) ==
    IsKey(channel_group) /\ RelevantGet(call.relevant_channels, channel_group).t = "list"

\* C11: with a mapping for relevant_channels, a group whose identifier is
\* not one of its keys has no entry in the returned table map, and every
\* group whose identifier is a key mapped to a list has one, a table with the
\* time column.
C11_AbsentGroupDropped ==
    (pc = "returned" /\ call.extract_data /\ call.relevant_channels.t = "dict") =>
      \A j \in 1..Len(waveform_base) :
         LET channel_group == waveform_base[j].channel_group IN
         /\ ~IsKey(channel_group) => ~DictHas(ret.waveform_df_dict, channel_group)
         /\ IsListKey(channel_group) =>
              /\ DictHas(ret.waveform_df_dict, channel_group)
              /\ time_col \in NamesOf(DictGet(ret.waveform_df_dict, channel_group))

C11_Witness ==
    /\ pc = "returned"
    /\ call.extract_data
    /\ Len(waveform_base) = 2
    /\ ~IsKey(waveform_base[1].channel_group)
    /\ IsListKey(waveform_base[2].channel_group)
    /\ Len(ret.waveform_df_dict) = 1
    /\ ret.waveform_df_dict[1].key = waveform_base[2].channel_group

\* The table of the current group after the allow-list of lines 313-320
KeptTable == Filtered(frame.df, call.relevant_channels, frame.channel_group)

\* C12: the channel filter is idempotent: the column selection applied to
\* the table it gave, with the same allow-list, gives that table again, with
\* the same columns in the same order and number.
C12_FilterIdempotent ==
    (pc = "filter" /\ ~KeptTable.dropped /\ Len(frame.parsed_data) > 0) =>
      Filtered(KeptTable.df, call.relevant_channels, frame.channel_group).df = KeptTable.df

\* The metadata record exists: the function is past line 247.
HasContentInfo == pc # "start"

\* C13: the global timing fields come from the first channel group alone:
\* at every point of the loop and in what is returned, FREQUENCY,
\* NUMBER_OF_SAMPLES and DURATION are those of group 0 (DURATION as line 221
\* computes it) and the end datetime is the start plus (samples - 1) /
\* frequency of group 0, whatever the frequency and the sample count of the
\* groups after it.
C13_TimingFromFirstGroup ==
    HasContentInfo =>
      LET first == waveform_base[1] IN
      /\ content_info["FREQUENCY"] = first.sampling_frequency
      /\ content_info["NUMBER_OF_SAMPLES"] = first.num_of_samples
      /\ content_info["DURATION"] =
            [num |-> first.num_of_samples, den |-> first.sampling_frequency]
      /\ Truthy(start_datetime) =>
            /\ content_info["START_DATETIME"] = Strftime(start_datetime)
            /\ content_info["END_DATETIME"] =
                 Strftime(PyDatetime(start_datetime.v
                                     + Micros(first.num_of_samples - 1,
                                              first.sampling_frequency)))
      /\ pc = "returned" => ret.content_info = content_info

C13_Witness ==
    /\ pc = "returned"
    /\ Truthy(start_datetime)
    /\ Len(waveform_base) = 2
    /\ Len(ret.waveform_df_dict) = 2
    /\ waveform_base[2].sampling_frequency # waveform_base[1].sampling_frequency
    /\ waveform_base[2].num_of_samples # waveform_base[1].num_of_samples

\* C14: in the returned metadata DURATION = (NUMBER_OF_SAMPLES - 1) /
\* FREQUENCY, and with the start datetime known the end datetime is the start
\* plus DURATION seconds.
C14_DurationFormula ==
    (pc = "returned" /\ ret.content_info["NUMBER_OF_SAMPLES"] > 0) =>
      LET info == ret.content_info IN
      /\ info["DURATION"].num * info["FREQUENCY"]
           = (info["NUMBER_OF_SAMPLES"] - 1) * info["DURATION"].den
      /\ Truthy(start_datetime) =>
            info["END_DATETIME"] =
               Strftime(PyDatetime(start_datetime.v
                                   + Micros(info["DURATION"].num, info["DURATION"].den)))

\* global_metadata carries no content datetime.
NoContentDatetime == ~Truthy(start_datetime)

\* Every row of the datetime column of df holds the sentinel string.
SentinelTable(df) ==
    /\ Count(df, datetime_col) = 1
    /\ LET column == df[CHOOSE k \in 1..Len(df) : df[k].name = datetime_col].data IN
         /\ Len(column) = Len(df[1].data)
         /\ \A r \in 1..Len(column) :
               column[r] = PyStr(<<"U", "N", "K", "N", "O", "W", "N", "_",
                                   "D", "A", "T", "E", "T", "I", "M", "E">>)

\* C15: with no content datetime the timing steps never fail and every
\* decoded group the allow-list keeps is stored; the start and end fields of
\* the metadata hold the sentinel strings UNKNOWN_START and UNKNOWN_END, and
\* every row of the datetime column of every table holds the sentinel string
\* UNKNOWN_DATETIME, never a null.
C15_NoDatetimeSentinels ==
    [][NoContentDatetime =>
         /\ pc \in {"start", "filter"} => pc' # "raised"
         /\ (pc = "filter" /\ ~KeptTable.dropped) =>
               DictHas(waveform_df_dict', frame.channel_group)
         /\ content_info'["START"] = PyStr(S_UNKNOWN_START)
         /\ content_info'["END"] = PyStr(S_UNKNOWN_END)
         /\ \A e \in 1..Len(waveform_df_dict') : SentinelTable(waveform_df_dict'[e].value)
         /\ pc' = "returned" =>
               ret' = [waveform_df_dict |-> waveform_df_dict', content_info |-> content_info']
      ]_vars

C15_Witness ==
    /\ pc = "returned"
    /\ NoContentDatetime
    /\ Len(waveform_base) = 2
    /\ Len(ret.waveform_df_dict) = 2
    /\ \A e \in 1..2 : Len(ret.waveform_df_dict[e].value[1].data) >= 2

\* The channels (group, position) of the groups named exactly PRESSURE that
\* the loop has reached the table of.
PressureChannels ==
    {jk \in (1..Len(waveform_base)) \X (1..MaxChannels) :
        /\ waveform_base[jk[1]].channel_group =
              <<"P", "R", "E", "S", "S", "U", "R", "E">>
        /\ jk[2] <= Len(waveform_base[jk[1]].channel_definition_sequence)
        /\ \/ jk[1] <= i_w
           \/ jk[1] = i_w + 1 /\ pc = "filter"}

\* The label and the meaning the extractor gives for channel jk
LabelAt(jk) ==
    ExtractAt(waveform_base[jk[1]].channel_definition_sequence, LabelSite).results[jk[2]]

MeaningAt(jk) ==
    ExtractAt(waveform_base[jk[1]].channel_definition_sequence, MeaningSite).results[jk[2]]

\* C16: the PRESSURE_SITES catalog maps label to meaning for the channels of
\* the groups whose identifier is exactly "PRESSURE" and for no other: each
\* of its entries is such a channel, each such channel has its entry when
\* the data are extracted, and a group of any other identifier, another
\* casing included, adds none.
C16_PressureSitesExact ==
    pc \in {"group", "filter", "returned"} =>
      LET sites == content_info["PRESSURE_SITES"] IN
      /\ \A e \in 1..Len(sites) :
            \E jk \in PressureChannels :
               sites[e].key = LabelAt(jk) /\ sites[e].value = MeaningAt(jk)
      /\ call.extract_data => \A jk \in PressureChannels : DictHas(sites, LabelAt(jk))

C16_Witness ==
    /\ pc = "returned"
    /\ call.extract_data
    /\ Len(waveform_base) = 2
    /\ waveform_base[1].channel_group = S_pressure
    /\ waveform_base[2].channel_group = S_PRESSURE
    /\ Len(ret.content_info["PRESSURE_SITES"]) = 2

\* Item k of the call holds, under the tag, a sequence whose first element
\* has a code meaning.
NestedResolves(k) ==
    LET item == call.sequence[k]
        tag_path == call.site.tag_path
    IN /\ tag_path \in DOMAIN item
       /\ item[tag_path].t = "sq"
       /\ Len(item[tag_path].v) > 0
       /\ CodeMeaningTag \in DOMAIN item[tag_path].v[1]

\* C17: for a nested attribute every element of the returned list is the
\* code meaning of the first element of the sequence the item holds, or the
\* placeholder of its position: an item without the tag, with an empty
\* sequence or with a first element lacking the code meaning gives the
\* placeholder, never the sequence itself.
C17_NestedMeaningOrPlaceholder ==
    (pc = "returned" /\ call.site.nested) =>
      \A k \in 1..Len(ret) :
         ret[k] = IF NestedResolves(k)
                    THEN call.sequence[k][call.site.tag_path].v[1][CodeMeaningTag]
                  ELSE PyStr(PlaceholderHead(call.site.default) \o IntToStr(k))

\* C18: with no allow-list the table built for a group holds the time
\* column and one value column per channel, column k holding the values of
\* channel k, whatever the labels: labels that repeat within the group and a
\* label equal to the name of the time column included.
C18_ColumnPerChannel ==
    (pc = "filter" /\ call.relevant_channels = PyNone /\ Len(frame.parsed_data) > 0) =>
      /\ Len(frame.df) = 1 + frame.channel_count
      /\ frame.df[1].name = time_col
      /\ frame.df[1].data =
            [k \in 1..Len(frame.parsed_data) |-> TimePoint(k - 1, frame.sampling_frequency)]
      /\ \A c \in 1..frame.channel_count :
            frame.df[1 + c].data = FloatCells(ColumnOf(frame.parsed_data, c))

\* The timing and catalog keys of content_info as the docstring of
\* extract_waveform_data_form_dcm lists them, the keys that carry the
\* sentinels when the start datetime is unknown.
DocumentedKeys ==
    {"START", "END", "DURATION", "FREQUENCY", "NUMBER_OF_SAMPLES", "PRESSURE_SITES",
     "CHANNEL_INFO"}

\* C19: the returned metadata record has the same keys whether or not the
\* start datetime is known: the fields that hold the sentinels when it is
\* unknown hold the formatted start and end datetimes when it is known.
C19_SameKeySet ==
    pc = "returned" =>
      /\ DOMAIN ret.content_info = DocumentedKeys
      /\ Truthy(start_datetime) =>
            /\ ret.content_info["START"] = Strftime(start_datetime)
            /\ ret.content_info["END"].t = "strftime"

====
